---- MODULE Spec2Model ----
(***************************************************************************)
(* A model of pynlpl's Moses phrase table (formats/moses.py) and of its    *)
(* statistics library (statistics.py).                                     *)
(*                                                                         *)
(* Python values are modelled as follows.                                  *)
(*   str    a sequence of one-character strings; "" is << >>               *)
(*   tuple  a sequence of values; a phrase or a type is a tuple of str     *)
(*   dict   the phrase table is a dict of dicts: it is modelled as the     *)
(*          function from every path of keys that exists under the root    *)
(*          to what is stored there (a dict or a list of records), so      *)
(*          `k in d` for the dict d at path p is `p \o <<k>>` being a path *)
(*          a FrequencyList's _count is the function from its keys to      *)
(*          their counts                                                   *)
(*   float  a quotient is kept as an exact fraction in lowest terms        *)
(*          a number read from a line is kept as the decimal written there *)
(*   raise  an operation yields a record whose err field names the         *)
(*          exception ("none" when it returns)                             *)
(*                                                                         *)
(* Left out: the progress report of the loader (quiet, linenum), the       *)
(* choice between a plain and a bz2 file, and the functions of             *)
(* statistics.py outside FrequencyList and Distribution.                   *)
(***************************************************************************)
EXTENDS Integers, Sequences, FiniteSets, TLC

VARIABLES
    phrasetable,  \* PhraseTable.phrasetable
    inserted,     \* history: per source phrase, the records of the append calls that returned
    emptyWord,    \* history: some append call had a source with an empty word
    pc,           \* where PhraseTable.__init__ is: "loading", "loaded" or "raised"
    cfg,          \* the arguments of PhraseTable.__init__
    line,         \* the line PhraseTable.__init__ read last
    nread,        \* history: the number of lines read
    fl,           \* the FrequencyList objects: of each, _count, _ranked, total, casesensitive
    product,      \* the FrequencyList that __add__ returned last
    dist,         \* the Distribution object: base, _dist, _ranked
    cleared,      \* history: a count call has discarded a cached ranking
    op,           \* history: the operation called last
    arg,          \* history: its argument
    ret,          \* history: what it returned or raised
    nops          \* history: the number of mutating calls made

tableVars == <<phrasetable, inserted, emptyWord, pc, cfg, line, nread>>
statsVars == <<fl, product, dist, cleared>>
vars == <<tableVars, statsVars, op, arg, ret, nops>>

----------------------------------------------------------------------------
(* Bounds *)

MaxPhraseLen == 2
MaxAppends == 2
MaxLines == 2
MaxCalls == 3
MaxTokens == 2

----------------------------------------------------------------------------
(* Python values *)

Returned(v) == [err |-> "none", val |-> v]
Raised(e) == [err |-> e]

EmptyStr == << >>

Words == {EmptyStr, <<"a">>}

RECURSIVE SeqsUpTo(_, _)
SeqsUpTo(S, n) ==
    IF n = 0 THEN {<< >>}
    ELSE LET shorter == SeqsUpTo(S, n - 1)
         IN  shorter \cup {Append(s, x) : s \in {t \in shorter : Len(t) = n - 1}, x \in S}

Phrases == SeqsUpTo(Words, MaxPhraseLen)

\* str.strip(): whitespace removed at both ends
IsSpace(c) == c \in {" ", "\n"}

RECURSIVE lstrip(_)
lstrip(s) == IF s # << >> /\ IsSpace(Head(s)) THEN lstrip(Tail(s)) ELSE s

RECURSIVE rstrip(_)
rstrip(s) ==
    IF s # << >> /\ IsSpace(s[Len(s)]) THEN rstrip(SubSeq(s, 1, Len(s) - 1)) ELSE s

strip(s) == rstrip(lstrip(s))

\* sep occurs in s at position i
OccursAt(s, i, sep) ==
    /\ i + Len(sep) - 1 <= Len(s)
    /\ SubSeq(s, i, i + Len(sep) - 1) = sep

\* str.split(sep), sep not empty: s cut at every occurrence of sep, found left
\* to right without overlap; the pieces may be empty
RECURSIVE split_from(_, _, _, _)
split_from(s, sep, i, start) ==
    IF i > Len(s) THEN <<SubSeq(s, start, Len(s))>>
    ELSE IF OccursAt(s, i, sep)
         THEN <<SubSeq(s, start, i - 1)>>
                  \o split_from(s, sep, i + Len(sep), i + Len(sep))
         ELSE split_from(s, sep, i + 1, start)

split(s, sep) == split_from(s, sep, 1, 1)

\* str.count(sub): the occurrences of sub in s that do not overlap
RECURSIVE count_from(_, _, _)
count_from(s, sub, i) ==
    IF i > Len(s) THEN 0
    ELSE IF OccursAt(s, i, sub) THEN 1 + count_from(s, sub, i + Len(sub))
    ELSE count_from(s, sub, i + 1)

str_count(s, sub) == count_from(s, sub, 1)

\* float(s) over the characters of the model: digits with at most one point.
\* The value m * 10^-e is kept exact, without trailing zeros after the point.
Digit == [c \in {"0", "1", "2", "3", "5"} |->
             CASE c = "0" -> 0 [] c = "1" -> 1 [] c = "2" -> 2 [] c = "3" -> 3 [] c = "5" -> 5]

RECURSIVE Mantissa(_, _)
Mantissa(s, acc) ==
    IF s = << >> THEN acc
    ELSE IF Head(s) = "." THEN Mantissa(Tail(s), acc)
    ELSE Mantissa(Tail(s), 10 * acc + Digit[Head(s)])

RECURSIVE Shorten(_, _)
Shorten(m, e) == IF e > 0 /\ m % 10 = 0 THEN Shorten(m \div 10, e - 1) ELSE [m |-> m, e |-> e]

IsFloat(s) ==
    /\ \A i \in 1..Len(s) : s[i] \in DOMAIN Digit \cup {"."}
    /\ Cardinality({i \in 1..Len(s) : s[i] = "."}) <= 1
    /\ \E i \in 1..Len(s) : s[i] \in DOMAIN Digit

float(s) ==
    IF ~IsFloat(s) THEN Raised("ValueError")
    ELSE LET points == {i \in 1..Len(s) : s[i] = "."}
             e == IF points = {} THEN 0 ELSE Len(s) - (CHOOSE i \in points : TRUE)
         IN  Returned(Shorten(Mantissa(s, 0), e))

Zero == [m |-> 0, e |-> 0]

Records ==
    { <<(<< <<"x">> >>), [m |-> 5, e |-> 1], [m |-> 3, e |-> 1], 0>>,
      <<(<< <<"y">> >>), Zero, Zero, 1>> }

----------------------------------------------------------------------------
(* PhraseTable: the trie *)

DictNode == [kind |-> "dict"]
ListNode(recs) == [kind |-> "list", recs |-> recs]
EmptyTable == (<< >> :> DictNode)

\* `k in d` for the object d stored at path p. When d is a terminal list the
\* test is list membership, and no str equals a record, a tuple.
HasKey(t, p, k) == t[p].kind = "dict" /\ Append(p, k) \in DOMAIN t

\* lines 71-75: one step down per word, a dict created for an unseen word.
\* On a terminal list d[word] = {} raises TypeError.
RECURSIVE append_walk(_, _, _, _)
append_walk(t, p, source, i) ==
    IF i > Len(source) THEN [err |-> "none", t |-> t, p |-> p]
    ELSE LET word == source[i]
             q == Append(p, word)
         IN  IF HasKey(t, p, word) THEN append_walk(t, q, source, i + 1)
             ELSE IF t[p].kind = "list"
                  THEN [err |-> "TypeError", t |-> t, p |-> p]
                  ELSE append_walk(t @@ (q :> DictNode), q, source, i + 1)

\* A faulty terminal step, for comparison: d[""] = [record] whether or not
\* the slot exists, which drops the records appended before.
append_terminal_overwrite(t, p, rec) ==
    LET q == Append(p, EmptyStr)
    IN  IF t[p].kind = "list" THEN [err |-> "TypeError", t |-> t]
        ELSE [err |-> "none", t |-> (q :> ListNode(<<rec>>)) @@ t]

\* lines 77-80: the record is appended to the list d[""], which is created
\* when d has no key "". When an empty word has made d[""] a dict, it has no
\* append; when d is itself a terminal list, d[""] = ... is no list index.
append_terminal(t, p, rec) ==
    LET q == Append(p, EmptyStr)
    IN  IF HasKey(t, p, EmptyStr)
        THEN IF t[q].kind = "list"
             THEN [err |-> "none", t |-> [t EXCEPT ![q] = ListNode(Append(@.recs, rec))]]
             ELSE [err |-> "AttributeError", t |-> t]
        ELSE IF t[p].kind = "list"
             THEN [err |-> "TypeError", t |-> t]
             ELSE [err |-> "none", t |-> t @@ (q :> ListNode(<<rec>>))]

PhraseTable_append(t, source, rec) ==
    LET w == append_walk(t, << >>, source, 1)
    IN  IF w.err # "none" THEN [err |-> w.err, t |-> w.t]
        ELSE append_terminal(w.t, w.p, rec)

RECURSIVE contains_walk(_, _, _, _)
contains_walk(t, p, phrase, i) ==
    IF i > Len(phrase) THEN HasKey(t, p, EmptyStr)
    ELSE IF ~HasKey(t, p, phrase[i]) THEN FALSE
    ELSE contains_walk(t, Append(p, phrase[i]), phrase, i + 1)

PhraseTable_contains(t, phrase) == Returned(contains_walk(t, << >>, phrase, 1))

RECURSIVE getitem_walk(_, _, _, _)
getitem_walk(t, p, phrase, i) ==
    IF i > Len(phrase)
    THEN IF HasKey(t, p, EmptyStr) THEN Returned(t[Append(p, EmptyStr)])
         ELSE Raised("KeyError")
    ELSE IF ~HasKey(t, p, phrase[i]) THEN Raised("KeyError")
    ELSE getitem_walk(t, Append(p, phrase[i]), phrase, i + 1)

PhraseTable_getitem(t, phrase) == getitem_walk(t, << >>, phrase, 1)

----------------------------------------------------------------------------
(* PhraseTable.__init__: the loader *)

Delimiter == <<"|", "|", "|">>
Space == <<" ">>
NullMark == <<"(", ")">>

\* seq[i] of Python for i >= 0, which is position i + 1 here
Item(seq, i) == IF i + 1 \in 1..Len(seq) THEN Returned(seq[i + 1]) ELSE Raised("IndexError")

\* the (trimmed) segments of a line
Segments(ln, delimiter) ==
    LET raw == split(ln, delimiter)
    IN  [i \in 1..Len(raw) |-> strip(raw[i])]

\* A faulty guard, for comparison: the number of segments is not looked at.
ScoreGuard_NoLength(segments, score_column) == score_column > 0

\* line 43
ScoreGuard(segments, score_column) ==
    score_column > 0 /\ Len(segments) >= score_column

\* lines 43-48: float(nums[0]) is evaluated before nums[2]
Scores(segments, score_column) ==
    IF ScoreGuard(segments, score_column)
    THEN LET seg == Item(segments, score_column - 1)
         IN  IF seg.err # "none" THEN seg
             ELSE LET nums == split(strip(seg.val), Space)
                      Pst == float(nums[1])
                      third == Item(nums, 2)
                  IN  IF Pst.err # "none" THEN Pst
                      ELSE IF third.err # "none" THEN third
                      ELSE LET Pts == float(third.val)
                           IN  IF Pts.err # "none" THEN Pts
                               ELSE Returned([Pst |-> Pst.val, Pts |-> Pts.val])
    ELSE Returned([Pst |-> Zero, Pts |-> Zero])

\* lines 50-56: any exception of the count is swallowed
NullAlignments(segments, align2_column) ==
    IF align2_column > 0
    THEN LET seg == Item(segments, align2_column)
         IN  IF seg.err = "none" THEN str_count(seg.val, NullMark) ELSE 0
    ELSE 0

\* lines 58-63: the source is split first
SourceTarget(segments, reverse) ==
    LET first == Item(segments, IF reverse THEN 1 ELSE 0)
        second == Item(segments, IF reverse THEN 0 ELSE 1)
    IN  IF first.err # "none" THEN first
        ELSE IF second.err # "none" THEN second
        ELSE Returned([source |-> split(first.val, Space),
                       target |-> split(second.val, Space)])

\* one pass of the loop body up to the call of append: the arguments of the call
parse_line(ln, c) ==
    LET segments == Segments(ln, c.delimiter)
        scores == Scores(segments, c.score_column)
        phrases == SourceTarget(segments, c.reverse)
    IN  IF scores.err # "none" THEN scores
        ELSE IF phrases.err # "none" THEN phrases
        ELSE Returned([source |-> phrases.val.source,
                       rec |-> <<phrases.val.target, scores.val.Pst, scores.val.Pts,
                                 NullAlignments(segments, c.align2_column)>>])

----------------------------------------------------------------------------
(* The files the loader reads *)

RECURSIVE join(_, _)
join(segs, sep) ==
    IF Len(segs) = 0 THEN << >>
    ELSE IF Len(segs) = 1 THEN segs[1]
    ELSE segs[1] \o sep \o join(Tail(segs), sep)

Seg0s == { <<"a">>, <<"a", " ", " ", "b">> }
Seg1s == { <<"x", " ", "y">>, <<"a">> }
Scores4 == <<"0", ".", "5", " ", "0", ".", "1", " ", "0", ".", "3", " ", "0", ".", "2">>
Scores2 == <<"0", ".", "5", " ", "0", ".", "1">>
Nulls == <<"(", ")", " ", "(", ")">>
Fields == {Scores4, Scores2, Nulls}
Extra == <<"e">>

SegLists ==
    {<<s0>> : s0 \in Seg0s}
    \cup {<<s0, s1>> : s0 \in Seg0s, s1 \in Seg1s}
    \cup {<<s0, s1, f>> : s0 \in Seg0s, s1 \in Seg1s, f \in {EmptyStr, Scores4}}
    \cup {<<s0, s1, EmptyStr, EmptyStr>> : s0 \in Seg0s, s1 \in Seg1s}
    \cup {<<s0, s1, EmptyStr, EmptyStr, f>> : s0 \in Seg0s, s1 \in Seg1s, f \in Fields}
    \cup {<<s0, s1, EmptyStr, EmptyStr, f, Extra>> : s0 \in Seg0s, s1 \in Seg1s, f \in Fields}

Lines == { join(segs, <<" ">> \o Delimiter \o <<" ">>) \o <<"\n">> : segs \in SegLists }

Configs ==
    [reverse : BOOLEAN, delimiter : {Delimiter}, score_column : {0, 3, 5}, align2_column : {0, 4}]

LoadPhrases == { split(s, Space) : s \in Seg0s \cup Seg1s }

AllPhrases == Phrases \cup LoadPhrases

----------------------------------------------------------------------------
(* FrequencyList *)

None == [kind |-> "None"]
EmptyDict == [kind |-> "dict"]
List(items) == [kind |-> "list", items |-> items]

\* the truth value of what _ranked holds: {}, None and [] are false
Truthy(r) == r.kind = "list" /\ r.items # << >>

\* a value passed as a type: a str or a tuple of str
Str(s) == [py |-> "str", v |-> s]
Tuple(t) == [py |-> "tuple", v |-> t]

\* what iterating over the value yields: the elements of a tuple, and the
\* characters of a str, each a str of length one
Elements(x) == IF x.py = "str" THEN [i \in 1..Len(x.v) |-> <<x.v[i]>>] ELSE x.v

LowerChar(c) == IF c = "A" THEN "a" ELSE IF c = "B" THEN "b" ELSE c
lower(s) == [i \in 1..Len(s) |-> LowerChar(s[i])]

_validate(x, casesensitive) ==
    IF ~casesensitive
    THEN [i \in 1..Len(Elements(x)) |-> lower(Elements(x)[i])]
    ELSE Elements(x)

FrequencyList_init(casesensitive) ==
    [_count |-> << >>, _ranked |-> EmptyDict, total |-> 0, casesensitive |-> casesensitive]

\* A faulty count, for comparison: the cached ranking is kept.
FrequencyList_count_keeps_ranking(f, x, amount) ==
    LET type == _validate(x, f.casesensitive)
    IN  [f EXCEPT !._count = IF type \in DOMAIN @
                             THEN [@ EXCEPT ![type] = @ + amount]
                             ELSE @ @@ (type :> amount),
                  !.total = @ + amount]

\* A faulty count, for comparison: the amount of a new type is not added to
\* total.
FrequencyList_count_new_type_untotalled(f, x, amount) ==
    LET type == _validate(x, f.casesensitive)
    IN  [f EXCEPT !._ranked = IF Truthy(@) THEN None ELSE @,
                  !._count = IF type \in DOMAIN @
                             THEN [@ EXCEPT ![type] = @ + amount]
                             ELSE @ @@ (type :> amount),
                  !.total = IF type \in DOMAIN f._count THEN @ + amount ELSE @]

\* lines 41-48
FrequencyList_count(f, x, amount) ==
    LET type == _validate(x, f.casesensitive)
    IN  [f EXCEPT !._ranked = IF Truthy(@) THEN None ELSE @,
                  !._count = IF type \in DOMAIN @
                             THEN [@ EXCEPT ![type] = @ + amount]
                             ELSE @ @@ (type :> amount),
                  !.total = @ + amount]

RECURSIVE FrequencyList_append(_, _)
FrequencyList_append(f, tokens) ==
    IF tokens = << >> THEN f
    ELSE FrequencyList_append(FrequencyList_count(f, Str(Head(tokens)), 1), Tail(tokens))

\* sorted(self._count.items(), key=count, reverse=True): the items in
\* non-increasing order of count. Items of equal count keep the order in which
\* the dict yields them, which Python leaves open: any order of them may arise.
Items(c) == { <<type, c[type]>> : type \in DOMAIN c }

RECURSIVE Orders(_)
Orders(S) ==
    IF S = {} THEN {<< >>}
    ELSE UNION { { <<x>> \o rest : rest \in Orders(S \ {x}) } : x \in S }

Sorted(c) ==
    { r \in Orders(Items(c)) : \A i \in 1..Len(r) - 1 : r[i][2] >= r[i + 1][2] }

\* _rank, sorted being what sorted() yields if it is called
FrequencyList_rank(f, sorted) ==
    IF ~Truthy(f._ranked) THEN [f EXCEPT !._ranked = List(sorted)] ELSE f

\* __iter__ run to its end: the pairs it yields, after _rank
FrequencyList_iter(f) == Returned(f._ranked.items)

\* mode, after _rank
FrequencyList_mode(f) ==
    IF Len(f._ranked.items) = 0 THEN Raised("IndexError")
    ELSE Returned(f._ranked.items[1][1])

\* __setitem__: what it raises, and the object after it
FrequencyList_setitem(f, x, value) ==
    LET type == _validate(x, f.casesensitive)
    IN  IF type \notin DOMAIN f._count
        THEN [err |-> "none", f |-> FrequencyList_count(f, Tuple(type), value)]
        ELSE [err |-> "ValueError", f |-> f]

\* self.name: the attributes of an object are the fields __init__ has set
GetAttr(obj, name) ==
    IF name \in DOMAIN obj THEN Returned(obj[name]) ELSE Raised("AttributeError")

RECURSIVE Gcd(_, _)
Gcd(a, b) == IF b = 0 THEN a ELSE Gcd(b, a % b)

Abs(n) == IF n < 0 THEN 0 - n ELSE n

\* n / float(d), d # 0
Quotient(n, d) ==
    LET g == Gcd(Abs(n), Abs(d))
        s == IF d < 0 THEN 0 - 1 ELSE 1
    IN  [n |-> s * (n \div g), d |-> s * (d \div g)]

Divide(n, d) == IF d = 0 THEN Raised("ZeroDivisionError") ELSE Returned(Quotient(n, d))

\* p: self._count[type] is evaluated before float(self._total)
FrequencyList_p(f, x) ==
    LET type == _validate(x, f.casesensitive)
        denominator == GetAttr(f, "_total")
    IN  IF type \notin DOMAIN f._count THEN Raised("KeyError")
        ELSE IF denominator.err # "none" THEN denominator
        ELSE Divide(f._count[type], denominator.val)

\* for type, count in c.items(): f.count(type, count); the result does not
\* depend on the order in which the dict yields its items
RECURSIVE count_items(_, _, _)
count_items(f, c, todo) ==
    IF todo = {} THEN f
    ELSE LET type == CHOOSE t \in todo : TRUE
         IN  count_items(FrequencyList_count(f, Tuple(type), c[type]), c, todo \ {type})

\* A faulty __add__, for comparison: the counts of the second list are
\* assigned, not counted.
RECURSIVE set_items(_, _, _)
set_items(f, c, todo) ==
    IF todo = {} THEN f
    ELSE LET type == CHOOSE t \in todo : TRUE
         IN  set_items([f EXCEPT !._count = (type :> c[type]) @@ @,
                                 !.total = @ + c[type]], c, todo \ {type})

FrequencyList_add_overwriting(self, otherfreqlist) ==
    LET first == count_items(FrequencyList_init(TRUE), self._count, DOMAIN self._count)
    IN  set_items(first, otherfreqlist._count, DOMAIN otherfreqlist._count)

FrequencyList_add(self, otherfreqlist) ==
    LET first == count_items(FrequencyList_init(TRUE), self._count, DOMAIN self._count)
    IN  count_items(first, otherfreqlist._count, DOMAIN otherfreqlist._count)

----------------------------------------------------------------------------
(* Distribution *)

\* a probability given in a mapping: k thousandths
Thousandths(k) == Quotient(k, 1000)

RECURSIVE SumOf(_, _)
SumOf(c, todo) ==
    IF todo = {} THEN 0
    ELSE LET type == CHOOSE t \in todo : TRUE
         IN  c[type] + SumOf(c, todo \ {type})

\* __init__ for a FrequencyList: count / float(data.total) for every item
Distribution_from_freqlist(data, base) ==
    IF DOMAIN data._count # {} /\ data.total = 0 THEN Raised("ZeroDivisionError")
    ELSE Returned([base |-> base,
                   _dist |-> [type \in DOMAIN data._count |->
                                 Quotient(data._count[type], data.total)],
                   _ranked |-> None])

\* __init__ for a dict whose values are thousandths: the values are divided
\* by their sum unless the sum is within 0.999 and 1.000
Distribution_from_dict(data, base) ==
    LET total == SumOf(data, DOMAIN data)
    IN  IF total < 999 \/ total > 1000
        THEN IF DOMAIN data # {} /\ total = 0 THEN Raised("ZeroDivisionError")
             ELSE Returned([base |-> base,
                            _dist |-> [type \in DOMAIN data |-> Quotient(data[type], total)],
                            _ranked |-> None])
        ELSE Returned([base |-> base,
                       _dist |-> [type \in DOMAIN data |-> Thousandths(data[type])],
                       _ranked |-> None])

Distribution_validate(x) == Elements(x)

\* a logarithm base that is set
Num(v) == [kind |-> "number", v |-> v]

\* `not base`
Not(base) == base = None \/ base = Num(0)

\* -math.log(p) or -math.log(p, base): the value is kept as the pair it is
\* computed from; the logarithm of a number that is not positive is an error
NegLog(p, base) ==
    IF p.n <= 0 THEN Raised("ValueError")
    ELSE Returned([minus_log_of |-> p, base |-> IF Not(base) THEN None ELSE base])

\* information: base is assigned in the body (line 142), so it is a local
\* name of the function, and it is no parameter: it has no value when the
\* condition of line 142 reads it
Distribution_information(self, x) ==
    LET type == Distribution_validate(x)
        locals == [self |-> self, type |-> type]
    IN  IF "base" \notin DOMAIN locals THEN Raised("UnboundLocalError")
        ELSE LET base == IF Not(locals.base) /\ ~Not(self.base)
                         THEN self.base ELSE locals.base
             IN  IF type \notin DOMAIN self._dist THEN Raised("KeyError")
                 ELSE NegLog(self._dist[type], base)

Distribution_poslog(self, x) ==
    LET type == Distribution_validate(x)
    IN  Distribution_information(self, Tuple(type))

----------------------------------------------------------------------------
(* The phrase table after construction from an empty file, and its calls *)

DefaultCfg ==
    [reverse |-> FALSE, delimiter |-> Delimiter, score_column |-> 5, align2_column |-> 4]

\* a phrase table constructed from an empty file with the default arguments
TableLoaded ==
    /\ phrasetable = EmptyTable
    /\ inserted = [q \in AllPhrases |-> << >>]
    /\ emptyWord = FALSE
    /\ pc = "loaded"
    /\ cfg = DefaultCfg
    /\ line = << >>
    /\ nread = 0

Objects == {"A", "B"}

\* two frequency lists constructed without tokens, and no other object
StatsNew(casesensitive) ==
    /\ fl = [o \in Objects |-> FrequencyList_init(casesensitive[o])]
    /\ product = None
    /\ dist = None
    /\ cleared = FALSE

NoCall ==
    /\ op = "init"
    /\ arg = << >>
    /\ ret = Returned(<< >>)
    /\ nops = 0

Init ==
    /\ TableLoaded
    /\ StatsNew([o \in Objects |-> TRUE])
    /\ NoCall

Insert(source, rec) ==
    /\ pc = "loaded"
    /\ nops < MaxAppends
    /\ LET r == PhraseTable_append(phrasetable, source, rec)
       IN  /\ phrasetable' = r.t
           /\ ret' = [err |-> r.err]
           /\ inserted' = IF r.err = "none"
                          THEN [inserted EXCEPT ![source] = Append(@, rec)]
                          ELSE inserted
    /\ emptyWord' = (emptyWord \/ \E i \in 1..Len(source) : source[i] = EmptyStr)
    /\ op' = "append"
    /\ arg' = source
    /\ nops' = nops + 1
    /\ UNCHANGED <<pc, cfg, line, nread, statsVars>>

Contains(phrase) ==
    /\ pc = "loaded"
    /\ ret' = PhraseTable_contains(phrasetable, phrase)
    /\ op' = "contains"
    /\ arg' = phrase
    /\ UNCHANGED <<tableVars, statsVars, nops>>

GetItem(phrase) ==
    /\ pc = "loaded"
    /\ ret' = PhraseTable_getitem(phrasetable, phrase)
    /\ op' = "getitem"
    /\ arg' = phrase
    /\ UNCHANGED <<tableVars, statsVars, nops>>

Next ==
    \/ \E source \in Phrases, rec \in Records : Insert(source, rec)
    \/ \E phrase \in Phrases : Contains(phrase)
    \/ \E phrase \in Phrases : GetItem(phrase)

Spec == Init /\ [][Next]_vars

----------------------------------------------------------------------------
(* The constructor reading its file line by line *)

InitLoad ==
    /\ phrasetable = EmptyTable
    /\ inserted = [q \in AllPhrases |-> << >>]
    /\ emptyWord = FALSE
    /\ pc = "loading"
    /\ cfg \in Configs
    /\ line = << >>
    /\ nread = 0
    /\ StatsNew([o \in Objects |-> TRUE])
    /\ NoCall

LoadLine(ln) ==
    /\ pc = "loading"
    /\ nread < MaxLines
    /\ line' = ln
    /\ nread' = nread + 1
    /\ LET parsed == parse_line(ln, cfg)
       IN  IF parsed.err # "none"
           THEN /\ pc' = "raised"
                /\ ret' = Raised(parsed.err)
                /\ UNCHANGED <<phrasetable, inserted, emptyWord>>
           ELSE LET source == parsed.val.source
                    r == PhraseTable_append(phrasetable, source, parsed.val.rec)
                IN  /\ phrasetable' = r.t
                    /\ ret' = [err |-> r.err]
                    /\ pc' = IF r.err = "none" THEN "loading" ELSE "raised"
                    /\ inserted' = IF r.err = "none"
                                   THEN [inserted EXCEPT ![source] = Append(@, parsed.val.rec)]
                                   ELSE inserted
                    /\ emptyWord' = (emptyWord
                                       \/ \E i \in 1..Len(source) : source[i] = EmptyStr)
    /\ op' = "load"
    /\ UNCHANGED <<cfg, arg, nops, statsVars>>

Eof ==
    /\ pc = "loading"
    /\ line' = << >>
    /\ pc' = "loaded"
    /\ op' = "close"
    /\ ret' = Returned(<< >>)
    /\ UNCHANGED <<phrasetable, inserted, emptyWord, cfg, nread, arg, nops, statsVars>>

NextLoad ==
    \/ \E ln \in Lines : LoadLine(ln)
    \/ Eof

SpecLoad == InitLoad /\ [][NextLoad]_vars

----------------------------------------------------------------------------
(* A frequency list and its calls *)

TypeInputs ==
    { << <<"a">> >>, << <<"b">> >>, << <<"A">> >>, << <<"a">>, <<"b">> >> }

Tokens == { <<"a">>, <<"A">>, <<"a", "b">> }

TokenSeqs == SeqsUpTo(Tokens, MaxTokens)

Amounts == {0 - 1, 1, 2}

InitFreq ==
    /\ TableLoaded
    /\ \E c \in BOOLEAN : StatsNew([o \in Objects |-> c])
    /\ NoCall

Count(o, type, amount) ==
    /\ nops < MaxCalls
    /\ fl' = [fl EXCEPT ![o] = FrequencyList_count(@, Tuple(type), amount)]
    /\ cleared' = (cleared \/ Truthy(fl[o]._ranked))
    /\ op' = "count"
    /\ arg' = << >>
    /\ ret' = Returned(None)
    /\ nops' = nops + 1
    /\ UNCHANGED <<tableVars, product, dist>>

AppendTokens(o, tokens) ==
    /\ nops < MaxCalls
    /\ fl' = [fl EXCEPT ![o] = FrequencyList_append(@, tokens)]
    /\ cleared' = (cleared \/ (Truthy(fl[o]._ranked) /\ tokens # << >>))
    /\ op' = "append"
    /\ arg' = tokens
    /\ ret' = Returned(None)
    /\ nops' = nops + 1
    /\ UNCHANGED <<tableVars, product, dist>>

SetItem(o, type, value) ==
    /\ nops < MaxCalls
    /\ LET r == FrequencyList_setitem(fl[o], Tuple(type), value)
       IN  /\ fl' = [fl EXCEPT ![o] = r.f]
           /\ cleared' = (cleared \/ (r.err = "none" /\ Truthy(fl[o]._ranked)))
           /\ ret' = IF r.err = "none" THEN Returned(None) ELSE Raised(r.err)
    /\ op' = "setitem"
    /\ arg' = << >>
    /\ nops' = nops + 1
    /\ UNCHANGED <<tableVars, product, dist>>

Iter(o) ==
    /\ \E sorted \in Sorted(fl[o]._count) :
           LET f == FrequencyList_rank(fl[o], sorted)
           IN  /\ fl' = [fl EXCEPT ![o] = f]
               /\ ret' = FrequencyList_iter(f)
    /\ op' = "iter"
    /\ arg' = << >>
    /\ UNCHANGED <<tableVars, product, dist, cleared, nops>>

Mode(o) ==
    /\ \E sorted \in Sorted(fl[o]._count) :
           LET f == FrequencyList_rank(fl[o], sorted)
           IN  /\ fl' = [fl EXCEPT ![o] = f]
               /\ ret' = FrequencyList_mode(f)
    /\ op' = "mode"
    /\ arg' = << >>
    /\ UNCHANGED <<tableVars, product, dist, cleared, nops>>

P(o, type) ==
    /\ ret' = FrequencyList_p(fl[o], Tuple(type))
    /\ op' = "p"
    /\ arg' = type
    /\ UNCHANGED <<tableVars, statsVars, nops>>

NextFreq ==
    \/ \E type \in TypeInputs, amount \in Amounts : Count("A", type, amount)
    \/ \E tokens \in TokenSeqs : AppendTokens("A", tokens)
    \/ \E type \in TypeInputs, value \in Amounts : SetItem("A", type, value)
    \/ Iter("A")
    \/ Mode("A")
    \/ \E type \in TypeInputs : P("A", type)

SpecFreq == InitFreq /\ [][NextFreq]_vars

----------------------------------------------------------------------------
(* Two frequency lists and their sum *)

InitCombine ==
    /\ TableLoaded
    /\ \E c \in BOOLEAN : StatsNew([o \in Objects |-> c])
    /\ NoCall

Add(self, otherfreqlist) ==
    /\ product' = FrequencyList_add(fl[self], fl[otherfreqlist])
    /\ op' = "add"
    /\ arg' = <<self, otherfreqlist>>
    /\ ret' = Returned(None)
    /\ UNCHANGED <<tableVars, fl, dist, cleared, nops>>

\* the amounts counted into the two lists
Frequencies == {1, 2}

NextCombine ==
    \/ \E o \in Objects, type \in TypeInputs, amount \in Frequencies : Count(o, type, amount)
    \/ Iter("A")
    \/ \E self \in Objects, otherfreqlist \in Objects : Add(self, otherfreqlist)

SpecCombine == InitCombine /\ [][NextCombine]_vars

----------------------------------------------------------------------------
(* A distribution and its calls *)

Bases == {None, Num(2)}

\* the probability mappings a Distribution is constructed from, in thousandths
Mappings ==
    { (<< <<"a">> >> :> 1000),
      (<< <<"a">> >> :> 500) @@ (<< <<"b">> >> :> 500),
      (<< <<"a">> >> :> 250) @@ (<< <<"b">> >> :> 250),
      (<< <<"a">> >> :> 2000) @@ (<< <<"a">>, <<"b">> >> :> 6000) }

NewDistribution(made) ==
    /\ dist' = IF made.err = "none" THEN made.val ELSE dist
    /\ ret' = IF made.err = "none" THEN Returned(None) ELSE made
    /\ op' = "distribution"
    /\ arg' = << >>
    /\ UNCHANGED <<tableVars, fl, product, cleared, nops>>

FromFreqList(base) == NewDistribution(Distribution_from_freqlist(fl["A"], base))

FromDict(data, base) == NewDistribution(Distribution_from_dict(data, base))

Information(type) ==
    /\ dist # None
    /\ ret' = Distribution_information(dist, Tuple(type))
    /\ op' = "information"
    /\ arg' = type
    /\ UNCHANGED <<tableVars, statsVars, nops>>

Poslog(type) ==
    /\ dist # None
    /\ ret' = Distribution_poslog(dist, Tuple(type))
    /\ op' = "poslog"
    /\ arg' = type
    /\ UNCHANGED <<tableVars, statsVars, nops>>

NextDist ==
    \/ \E type \in TypeInputs, amount \in Amounts : Count("A", type, amount)
    \/ \E base \in Bases : FromFreqList(base)
    \/ \E data \in Mappings, base \in Bases : FromDict(data, base)
    \/ \E type \in TypeInputs : Information(type)
    \/ \E type \in TypeInputs : Poslog(type)

SpecDist == InitFreq /\ [][NextDist]_vars

----------------------------------------------------------------------------
(* Claims about the trie *)

HasEmptyWord(phrase) == \E i \in 1..Len(phrase) : phrase[i] = EmptyStr

\* C1: after any sequence of append calls, `q in table` is true if and only
\* if some earlier append had source exactly q, for every phrase q, the empty
\* phrase and phrases with empty words included.
C1_ContainsIffInserted ==
    /\ \A q \in AllPhrases :
           PhraseTable_contains(phrasetable, q) = Returned(inserted[q] # << >>)
    /\ op = "contains" => ret = Returned(inserted[arg] # << >>)

\* what table[q] must be when the records appended under q are recs
Lookup(recs) == IF recs = << >> THEN Raised("KeyError") ELSE Returned(ListNode(recs))

\* C2: after append calls whose sources have no empty word, table[q] raises
\* KeyError when no append had source q and otherwise returns the records of
\* the appends with source q, one per call, in call order; every such append
\* returns, and an append with another source leaves table[q] as it was.
C2_LookupInCallOrder ==
    ~emptyWord =>
        /\ \A q \in AllPhrases : PhraseTable_getitem(phrasetable, q) = Lookup(inserted[q])
        /\ op = "getitem" => ret = Lookup(inserted[arg])
        /\ op = "append" => ret.err = "none"

C2_Witness ==
    /\ ~emptyWord
    /\ op = "getitem"
    /\ ret.err = "none"
    /\ Len(ret.val.recs) = 2
    /\ ret.val.recs[1] # ret.val.recs[2]
    /\ Len(arg) = 2

----------------------------------------------------------------------------
(* Claims about the loader *)

LoadStep == nread' = nread + 1

SegmentsOf(ln) == Segments(ln, cfg.delimiter)

\* the score column is enabled and the line has the two phrase segments but
\* fewer segments than score_column
ShortLine(ln) ==
    /\ cfg.score_column > 0
    /\ Len(SegmentsOf(ln)) >= 2
    /\ Len(SegmentsOf(ln)) < cfg.score_column

\* C3 as stated: a short line makes loading fail, and no record is inserted
\* for it.
C3_ShortLineIsFatal ==
    [][LoadStep /\ ShortLine(line') =>
           /\ ret'.err # "none"
           /\ pc' = "raised"
           /\ phrasetable' = phrasetable]_vars

\* C3 as amended: a short line is parsed without error exactly as with
\* score_column = 0, append is called with both scores 0, and the record it
\* inserts is the last one under the line's source phrase.
C3_ShortLineLoadsWithZeroScores ==
    [][LoadStep /\ ShortLine(line') =>
           LET here == parse_line(line', cfg)
               off == parse_line(line', [cfg EXCEPT !.score_column = 0])
           IN  /\ here.err = "none"
               /\ here = off
               /\ here.val.rec[2] = Zero
               /\ here.val.rec[3] = Zero
               /\ ret'.err \notin {"IndexError", "ValueError"}
               /\ ret'.err = "none" =>
                      PhraseTable_getitem(phrasetable', here.val.source)
                          = Returned(ListNode(Append(inserted[here.val.source],
                                                     here.val.rec)))]_vars

C3_Witness ==
    /\ op = "load"
    /\ ShortLine(line)
    /\ ret.err = "none"
    /\ pc = "loading"
    /\ nread = 2

\* the score column is enabled, the line has at least score_column segments,
\* and its score segment holds at least three numbers separated by single spaces
GoodLine(ln) ==
    /\ cfg.score_column > 0
    /\ Len(SegmentsOf(ln)) >= cfg.score_column
    /\ LET nums == split(SegmentsOf(ln)[cfg.score_column], Space)
       IN  Len(nums) >= 3 /\ \A i \in 1..Len(nums) : IsFloat(nums[i])

RecsOf(got) == IF got.err = "none" /\ got.val.kind = "list" THEN got.val.recs ELSE << >>

\* C4: loading a good line inserts exactly one record: under the words of
\* segment 0 with the words of segment 1 as target (the roles swapped when
\* reverse is set), with the 1st and the 3rd number of the score segment as
\* p(source|target) and p(target|source); no other phrase's records change.
C4_GoodLineInsertsOneRecord ==
    [][LoadStep /\ GoodLine(line') =>
           LET segs == SegmentsOf(line')
               key == split(segs[IF cfg.reverse THEN 2 ELSE 1], Space)
               target == split(segs[IF cfg.reverse THEN 1 ELSE 2], Space)
               nums == split(segs[cfg.score_column], Space)
               before == RecsOf(PhraseTable_getitem(phrasetable, key))
               after == PhraseTable_getitem(phrasetable', key)
           IN  /\ ret'.err = "none"
               /\ after.err = "none"
               /\ after.val.kind = "list"
               /\ Len(after.val.recs) = Len(before) + 1
               /\ SubSeq(after.val.recs, 1, Len(before)) = before
               /\ LET rec == after.val.recs[Len(after.val.recs)]
                  IN  /\ rec[1] = target
                      /\ rec[2] = float(nums[1]).val
                      /\ rec[3] = float(nums[3]).val
               /\ \A q \in AllPhrases \ {key} :
                      PhraseTable_getitem(phrasetable', q)
                          = PhraseTable_getitem(phrasetable, q)]_vars

----------------------------------------------------------------------------
(* Claims about the frequency list *)

TheList == fl["A"]

CountOf(c, type) == IF type \in DOMAIN c THEN c[type] ELSE 0

\* C5: on a list built by count calls with positive amounts, p(t) returns
\* count(t) / total for a stored type t and raises KeyError for a type that
\* has no count. (Every list whose counts are all positive is built by such
\* calls.)
C5_PIsCountOverTotal ==
    (op = "p" /\ \A t \in DOMAIN TheList._count : TheList._count[t] > 0) =>
        LET type == _validate(Tuple(arg), TheList.casesensitive)
        IN  ret = IF type \in DOMAIN TheList._count
                  THEN Returned(Quotient(TheList._count[type], TheList.total))
                  ELSE Raised("KeyError")

\* the number of times the token behind the one-element type occurs in tokens
Occurrences(tokens, type, casesensitive) ==
    Cardinality({ i \in 1..Len(tokens) :
                    << (IF casesensitive THEN tokens[i] ELSE lower(tokens[i])) >> = type })

\* C6: append(tokens) adds 1 per occurrence of the token w to the count of
\* the one-element type (w,), w in lower case when the list ignores case, and
\* changes no other count and stores no other type.
C6_AppendCountsUnaryTypes ==
    [][(op' = "append" /\ nops' = nops + 1) =>
           LET old == TheList._count
               new == TheList'._count
               unary == { <<(IF TheList.casesensitive THEN arg'[i] ELSE lower(arg'[i]))>> :
                            i \in 1..Len(arg') }
           IN  /\ DOMAIN new = DOMAIN old \cup unary
               /\ \A type \in DOMAIN new :
                      new[type] = CountOf(old, type)
                                    + Occurrences(arg', type, TheList.casesensitive)]_vars

\* C7: total is the sum of the stored counts in every state, and a set_once
\* (__setitem__) call on a type that has a count raises an error and changes
\* no count and not total.
C7_TotalIsSumOfCounts ==
    /\ TheList.total = SumOf(TheList._count, DOMAIN TheList._count)
    /\ [][/\ TheList'.total = SumOf(TheList'._count, DOMAIN TheList'._count)
          /\ (op' = "setitem" /\ nops' = nops + 1) =>
                 IF ret'.err = "none"
                 THEN DOMAIN TheList'._count # DOMAIN TheList._count
                 ELSE /\ ret'.err = "ValueError"
                      /\ TheList'._count = TheList._count
                      /\ TheList'.total = TheList.total]_vars

C7_Witness ==
    /\ op = "setitem"
    /\ ret.err = "ValueError"
    /\ nops = 3
    /\ Cardinality(DOMAIN TheList._count) = 2
    /\ TheList.total = 3

\* r lists the items of c, each once, in non-increasing order of count
IsRanking(r, c) ==
    /\ Len(r) = Cardinality(DOMAIN c)
    /\ { r[i] : i \in 1..Len(r) } = Items(c)
    /\ \A i \in 1..Len(r) - 1 : r[i][2] >= r[i + 1][2]

\* the ranking a ranked read has used: what __iter__ yields, and for mode the
\* cached list whose first type it returns
Ranked(f, o, r) ==
    /\ f._ranked.kind = "list"
    /\ IsRanking(f._ranked.items, f._count)
    /\ o = "iter" => r = Returned(f._ranked.items)
    /\ o = "mode" => r = IF f._ranked.items = << >> THEN Raised("IndexError")
                         ELSE Returned(f._ranked.items[1][1])

\* C10: a ranked read (__iter__, mode) returns the current items, each once,
\* in non-increasing order of count, whatever was cached before the last
\* mutation; and a ranked read that follows a ranked read with no mutation
\* between them uses the identical sequence.
C10_RankedReadsAreCurrent ==
    [][(op' \in {"iter", "mode"} /\ nops' = nops) =>
           /\ Ranked(TheList', op', ret')
           /\ op \in {"iter", "mode"} => TheList'._ranked = TheList._ranked]_vars

C10_Witness ==
    /\ cleared
    /\ op = "iter"
    /\ ret.err = "none"
    /\ Len(ret.val) = 2
    /\ ret.val[1][2] > ret.val[2][2]
    /\ nops = 3

----------------------------------------------------------------------------
(* Claims about the sum of two frequency lists and about the distribution *)

\* C8: A + B is a new FrequencyList whose count for every type is A's count
\* plus B's count (a missing count being 0) and whose total is A.total +
\* B.total; A and B keep their counts, total and cached ranking; and A + B and
\* B + A hold equal counts for every type.
C8_AddSumsCounts ==
    [][op' = "add" =>
           LET A == fl[arg'[1]]
               B == fl[arg'[2]]
           IN  /\ DOMAIN product'._count = DOMAIN A._count \cup DOMAIN B._count
               /\ \A type \in DOMAIN product'._count :
                      product'._count[type] = CountOf(A._count, type) + CountOf(B._count, type)
               /\ product'.total = A.total + B.total
               /\ fl' = fl
               /\ FrequencyList_add(B, A)._count = product'._count]_vars

C8_Witness ==
    /\ op = "add"
    /\ arg = <<"A", "B">>
    /\ Truthy(fl["A"]._ranked)
    /\ \E type \in DOMAIN fl["A"]._count \cap DOMAIN fl["B"]._count :
           product._count[type] = 3
    /\ \E type \in DOMAIN fl["A"]._count : type \notin DOMAIN fl["B"]._count
    /\ fl["A"]._count # fl["B"]._count

\* C9: on a Distribution that is not empty and whose probabilities are
\* positive, information(t), and its alias poslog(t), returns the negative
\* logarithm of p(t) in the base of the instance (the natural logarithm when
\* none is set) for every type t it holds, and raises KeyError exactly for the
\* types it does not hold.
C9_InformationIsNegLog ==
    (/\ op \in {"information", "poslog"}
     /\ DOMAIN dist._dist # {}
     /\ \A type \in DOMAIN dist._dist : dist._dist[type].n > 0) =>
        ret = IF arg \in DOMAIN dist._dist
              THEN Returned([minus_log_of |-> dist._dist[arg], base |-> dist.base])
              ELSE Raised("KeyError")

====
